---- MODULE Spec2Model ----
(***************************************************************************)
(* A model of lyn's Scanner (src/src/scanner.rs): a cursor over a fixed    *)
(* vector of characters, the single-character operations cursor, peek,     *)
(* is_done, pop, take and transform, and the scan loop driven by a         *)
(* classifier callback that answers Return / Request / Require / None.     *)
(*                                                                         *)
(* Option<T> is modelled as a sequence of length at most one: <<>> is None *)
(* and <<v>> is Some(v).  Enum values are records with a tag field.        *)
(***************************************************************************)
EXTENDS Integers, Sequences, FiniteSets, TLC

\* ------------------------------------------------------------------ bounds
\* Longest input string handed to Scanner::new.
MaxLen == 3

\* Most peek calls in a row the model follows before a call that may move
\* the cursor.
MaxPeeks == 2

\* The characters an input string is built from, and the values of the
\* result type T a classifier (or a transform callback) can produce.
Alphabet == {"a", "b"}
Values == {1, 2}

\* ------------------------------------------------------------ vocabulary
None == <<>>
Some(v) == <<v>>

\* Action<T> of action.rs.
Request(v) == [tag |-> "Request", val |-> v]
Require == [tag |-> "Require"]
Return(v) == [tag |-> "Return", val |-> v]

\* Error of error.rs.
EndOfLine == [tag |-> "EndOfLine"]
Character(p) == [tag |-> "Character", pos |-> p]

\* Result<Option<T>, Error>.
Ok(x) == [tag |-> "Ok", val |-> x]
Err(e) == [tag |-> "Err", err |-> e]

\* Every Option<Action<T>> a classifier can answer.
Decisions ==
    {None, Some(Require)}
        \cup {Some(Request(v)) : v \in Values}
        \cup {Some(Return(v)) : v \in Values}

\* Every Option<U> a transform callback can answer.
OptionValues == {None} \cup {Some(v) : v \in Values}

\* The input strings: sequences of characters of length 0 .. MaxLen.
Strings == UNION {[1..n -> Alphabet] : n \in 0..MaxLen}

\* ------------------------------------------------------- pure operations
\* Vec::get with a zero-based index: Some(element) in range, None outside.
Get(chars, i) ==
    IF i >= 0 /\ i < Len(chars) THEN Some(chars[i + 1]) ELSE None

\* peek as it would be if it looked one character too far.
peek_next(chars, cur) == Get(chars, cur + 1)

\* Scanner::peek.
peek(chars, cur) == Get(chars, cur)

\* Scanner::is_done.
is_done(chars, cur) == cur = Len(chars)

\* pop as it would be if it advanced without looking at the character.
pop_unchecked(chars, cur) ==
    [ret |-> Get(chars, cur), cursor |-> cur + 1]

\* pop as it would be if it returned the character without consuming it.
pop_stuck(chars, cur) ==
    [ret |-> Get(chars, cur), cursor |-> cur]

\* Scanner::pop: the returned character and the cursor after the call.
pop(chars, cur) ==
    IF Get(chars, cur) # None
    THEN [ret |-> Get(chars, cur), cursor |-> cur + 1]
    ELSE [ret |-> None, cursor |-> cur]

\* take as it would be if it consumed a character that is not the target.
take_skipping(chars, cur, target) ==
    IF Get(chars, cur) # None /\ Get(chars, cur)[1] = target
    THEN [ret |-> TRUE, cursor |-> cur + 1]
    ELSE [ret |-> FALSE,
          cursor |-> IF Get(chars, cur) # None THEN cur + 1 ELSE cur]

\* Scanner::take: the returned flag and the cursor after the call.
take(chars, cur, target) ==
    IF Get(chars, cur) # None /\ Get(chars, cur)[1] = target
    THEN [ret |-> TRUE, cursor |-> cur + 1]
    ELSE [ret |-> FALSE, cursor |-> cur]

\* transform as it would be if it consumed the character whatever the
\* callback yields.
transform_eager(chars, cur, f) ==
    IF Get(chars, cur) = None
    THEN [ret |-> None, cursor |-> cur, applied |-> <<>>]
    ELSE [ret |-> f[Get(chars, cur)[1]], cursor |-> cur + 1,
          applied |-> <<Get(chars, cur)[1]>>]

\* Scanner::transform with the callback f, a function from characters to
\* Option<U>: f is applied to the current character only when there is one.
\* applied lists the characters f was invoked on.
transform(chars, cur, f) ==
    IF Get(chars, cur) = None
    THEN [ret |-> None, cursor |-> cur, applied |-> <<>>]
    ELSE IF f[Get(chars, cur)[1]] # None
         THEN [ret |-> f[Get(chars, cur)[1]], cursor |-> cur + 1,
               applied |-> <<Get(chars, cur)[1]>>]
         ELSE [ret |-> None, cursor |-> cur,
               applied |-> <<Get(chars, cur)[1]>>]

\* ---------------------------------------------------------- the scan loop
\* The arms of the match in Scanner::scan.  s is the loop state
\* [cursor, require, request]; the outcome adds out, the value the loop
\* breaks with (None while the loop continues).
\* The Return arm as it would be if a pending Request value won over the
\* returned one.
ArmReturn_pending(s, result) ==
    [cursor |-> s.cursor + 1, require |-> s.require, request |-> s.request,
     out |-> Some(Ok(IF s.request # None THEN s.request ELSE Some(result)))]

\* The Return arm as it would be if it left the character unconsumed.
ArmReturn_unconsumed(s, result) ==
    [cursor |-> s.cursor, require |-> s.require, request |-> s.request,
     out |-> Some(Ok(Some(result)))]

ArmReturn(s, result) ==
    [cursor |-> s.cursor + 1, require |-> s.require, request |-> s.request,
     out |-> Some(Ok(Some(result)))]

\* The Request arm as it would be if it left the require flag alone.
ArmRequest_sticky(s, result) ==
    [cursor |-> s.cursor + 1, require |-> s.require,
     request |-> Some(result), out |-> None]

ArmRequest(s, result) ==
    [cursor |-> s.cursor + 1, require |-> FALSE, request |-> Some(result),
     out |-> None]

\* The Require arm as it would be if it left the character unconsumed.
ArmRequire_stalled(s) ==
    [cursor |-> s.cursor, require |-> TRUE, request |-> s.request,
     out |-> None]

\* The Require arm as it would be if it did not raise the require flag.
ArmRequire_lenient(s) ==
    [cursor |-> s.cursor + 1, require |-> s.require, request |-> s.request,
     out |-> None]

ArmRequire(s) ==
    [cursor |-> s.cursor + 1, require |-> TRUE, request |-> s.request,
     out |-> None]

\* The None arm as it would be if a failure gave back the character
\* consumed last.
ArmNone_rollback(s) ==
    [cursor |-> IF s.require THEN s.cursor - 1 ELSE s.cursor,
     require |-> s.require, request |-> s.request,
     out |-> IF s.require
             THEN Some(Err(Character(s.cursor)))
             ELSE Some(Ok(s.request))]

\* The None arm as it would be if it reported the position of the character
\* consumed last.
ArmNone_previous(s) ==
    [cursor |-> s.cursor, require |-> s.require, request |-> s.request,
     out |-> IF s.require
             THEN Some(Err(Character(s.cursor - 1)))
             ELSE Some(Ok(s.request))]

\* The None arm as it would be if it consumed the rejected character.
ArmNone_consuming(s) ==
    [cursor |-> s.cursor + 1, require |-> s.require, request |-> s.request,
     out |-> IF s.require
             THEN Some(Err(Character(s.cursor)))
             ELSE Some(Ok(s.request))]

ArmNone(s) ==
    [cursor |-> s.cursor, require |-> s.require, request |-> s.request,
     out |-> IF s.require
             THEN Some(Err(Character(s.cursor)))
             ELSE Some(Ok(s.request))]

\* The end-of-input arm as it would be if it reported a position.
ArmEnd_position(s) ==
    [cursor |-> s.cursor, require |-> s.require, request |-> s.request,
     out |-> IF s.require
             THEN Some(Err(Character(s.cursor)))
             ELSE Some(Ok(s.request))]

\* The end-of-input arm as it would be if it forgot the pending value.
ArmEnd_forgetful(s) ==
    [cursor |-> s.cursor, require |-> s.require, request |-> s.request,
     out |-> IF s.require
             THEN Some(Err(EndOfLine))
             ELSE Some(Ok(None))]

ArmEnd(s) ==
    [cursor |-> s.cursor, require |-> s.require, request |-> s.request,
     out |-> IF s.require
             THEN Some(Err(EndOfLine))
             ELSE Some(Ok(s.request))]

\* A classifier is a function from strings to decisions.  The model fixes
\* its answers on the one-character strings when it is passed to scan, and
\* its answer on a longer string when scan first hands that string to it.
FirstCharacters == {<<c>> : c \in Alphabet}

\* The classifiers that agree with f and answer on the string str.
Answering(f, str) ==
    IF str \in DOMAIN f
    THEN {f}
    ELSE {(str :> d) @@ f : d \in Decisions}

\* The loop of Scanner::scan run to its break from the loop state s with
\* the accumulated string seq: the outcome of the arm that breaks.
RECURSIVE RunLoop(_, _, _, _)
RunLoop(chars, f, seq, s) ==
    IF Get(chars, s.cursor) = None
    THEN ArmEnd(s)
    ELSE LET pushed == Append(seq, Get(chars, s.cursor)[1])
             d == f[pushed]
         IN  IF d = None THEN ArmNone(s)
             ELSE IF d[1].tag = "Return" THEN ArmReturn(s, d[1].val)
             ELSE IF d[1].tag = "Request"
                  THEN RunLoop(chars, f, pushed, ArmRequest(s, d[1].val))
                  ELSE RunLoop(chars, f, pushed, ArmRequire(s))

\* Scanner::scan as a function of the characters, the cursor at the call
\* and the classifier f: the returned value and the cursor after the call.
scan(chars, cur, f) ==
    LET o == RunLoop(chars, f, <<>>,
                     [cursor |-> cur, require |-> FALSE, request |-> None])
    IN  [ret |-> o.out[1], cursor |-> o.cursor]

\* ------------------------------------------------------------------ state
VARIABLES
    characters,  \* Scanner.characters
    cursor,      \* Scanner.cursor
    pc,          \* "idle" between calls, "scan" inside the loop of scan
    cb,          \* the classifier of the current (or last) scan call
                 \* on the strings its answer is fixed for
    sequence,    \* scan's local: the accumulated string
    require,     \* scan's local: the require flag
    request,     \* scan's local: the pending Request value
    start,       \* the cursor when the current (or last) call began
    calls,       \* the classifier invocations of the current scan call
    arm,         \* the arm of scan's match taken by the last iteration
    lastOp,      \* the operation called last
    ret,         \* what it returned
    arg,         \* its argument: take's target, transform's callback
    applied,     \* the characters transform's callback was invoked on
    peeked,      \* what the peek calls returned since the last call of
                 \* pop, take, transform or scan
    prev         \* the kind of result of the scan call that the current
                 \* scan call directly follows, "none" if it follows none

vars == <<characters, cursor, pc, cb, sequence, require, request, start,
          calls, arm, lastOp, ret, arg, applied, peeked, prev>>

\* Scanner::new: the string decomposed into its characters, cursor 0.
Init ==
    /\ characters \in Strings
    /\ cursor = 0
    /\ pc = "idle"
    /\ cb = <<>>
    /\ sequence = <<>>
    /\ require = FALSE
    /\ request = None
    /\ start = 0
    /\ calls = <<>>
    /\ arm = "none"
    /\ lastOp = "new"
    /\ ret = None
    /\ arg = None
    /\ applied = <<>>
    /\ peeked = <<>>
    /\ prev = "none"

\* What every call other than scan leaves of the scan bookkeeping: the
\* locals of an earlier scan call are gone.
NotScan ==
    /\ start' = cursor
    /\ calls' = <<>>
    /\ arm' = "none"
    /\ cb' = <<>>
    /\ sequence' = <<>>
    /\ require' = FALSE
    /\ request' = None
    /\ prev' = "none"
    /\ UNCHANGED <<characters, pc>>

\* Scanner::cursor.
CallCursor ==
    /\ pc = "idle"
    /\ lastOp' = "cursor"
    /\ ret' = cursor
    /\ arg' = None
    /\ applied' = <<>>
    /\ UNCHANGED <<cursor, peeked>>
    /\ NotScan

\* The peek call as it would be if it consumed the character it returns.
CallPeek_advancing ==
    /\ pc = "idle"
    /\ Len(peeked) < MaxPeeks
    /\ lastOp' = "peek"
    /\ ret' = peek(characters, cursor)
    /\ arg' = None
    /\ applied' = <<>>
    /\ peeked' = Append(peeked, ret')
    /\ cursor' = pop(characters, cursor).cursor
    /\ NotScan

\* Scanner::peek.
CallPeek ==
    /\ pc = "idle"
    /\ Len(peeked) < MaxPeeks
    /\ lastOp' = "peek"
    /\ ret' = peek(characters, cursor)
    /\ arg' = None
    /\ applied' = <<>>
    /\ peeked' = Append(peeked, ret')
    /\ UNCHANGED cursor
    /\ NotScan

\* Scanner::is_done.
CallIsDone ==
    /\ pc = "idle"
    /\ lastOp' = "is_done"
    /\ ret' = is_done(characters, cursor)
    /\ arg' = None
    /\ applied' = <<>>
    /\ UNCHANGED <<cursor, peeked>>
    /\ NotScan

\* Scanner::pop.
Pop ==
    /\ pc = "idle"
    /\ lastOp' = "pop"
    /\ ret' = pop(characters, cursor).ret
    /\ cursor' = pop(characters, cursor).cursor
    /\ arg' = None
    /\ applied' = <<>>
    /\ peeked' = <<>>
    /\ NotScan

\* Scanner::take.
Take ==
    /\ pc = "idle"
    /\ \E target \in Alphabet :
        /\ ret' = take(characters, cursor, target).ret
        /\ cursor' = take(characters, cursor, target).cursor
        /\ arg' = target
    /\ applied' = <<>>
    /\ peeked' = <<>>
    /\ lastOp' = "take"
    /\ NotScan

\* Scanner::transform.
Transform ==
    /\ pc = "idle"
    /\ \E f \in [Alphabet -> OptionValues] :
        /\ ret' = transform(characters, cursor, f).ret
        /\ cursor' = transform(characters, cursor, f).cursor
        /\ applied' = transform(characters, cursor, f).applied
        /\ arg' = f
    /\ peeked' = <<>>
    /\ lastOp' = "transform"
    /\ NotScan

\* The entry of scan as it would be if the flag and the pending value
\* outlived the call that set them.
ScanBegin_stale ==
    /\ pc = "idle"
    /\ \E f \in [FirstCharacters -> Decisions] : cb' = f
    /\ pc' = "scan"
    /\ sequence' = <<>>
    /\ start' = cursor
    /\ calls' = <<>>
    /\ arm' = "begin"
    /\ lastOp' = "scan"
    /\ ret' = None
    /\ arg' = None
    /\ applied' = <<>>
    /\ peeked' = <<>>
    /\ prev' = IF lastOp = "scan" THEN ret.tag ELSE "none"
    /\ UNCHANGED <<characters, cursor, require, request>>

\* The entry of scan as it would be if the require flag started out set.
ScanBegin_requiring ==
    /\ pc = "idle"
    /\ \E f \in [FirstCharacters -> Decisions] : cb' = f
    /\ pc' = "scan"
    /\ sequence' = <<>>
    /\ require' = TRUE
    /\ request' = None
    /\ start' = cursor
    /\ calls' = <<>>
    /\ arm' = "begin"
    /\ lastOp' = "scan"
    /\ ret' = None
    /\ arg' = None
    /\ applied' = <<>>
    /\ peeked' = <<>>
    /\ prev' = IF lastOp = "scan" THEN ret.tag ELSE "none"
    /\ UNCHANGED <<characters, cursor>>

\* Scanner::scan is entered with a classifier: the locals are initialised.
ScanBegin ==
    /\ pc = "idle"
    /\ \E f \in [FirstCharacters -> Decisions] : cb' = f
    /\ pc' = "scan"
    /\ sequence' = <<>>
    /\ require' = FALSE
    /\ request' = None
    /\ start' = cursor
    /\ calls' = <<>>
    /\ arm' = "begin"
    /\ lastOp' = "scan"
    /\ ret' = None
    /\ arg' = None
    /\ applied' = <<>>
    /\ peeked' = <<>>
    /\ prev' = IF lastOp = "scan" THEN ret.tag ELSE "none"
    /\ UNCHANGED <<characters, cursor>>

\* The loop state the arms work on.
LoopState == [cursor |-> cursor, require |-> require, request |-> request]

\* The effect of one iteration that took the arm named a with outcome o.
Iterate(a, o) ==
    /\ arm' = a
    /\ cursor' = o.cursor
    /\ require' = o.require
    /\ request' = o.request
    /\ IF o.out = None
       THEN pc' = "scan" /\ ret' = ret
       ELSE pc' = "idle" /\ ret' = o.out[1]
    /\ UNCHANGED <<characters, start, lastOp, arg, applied, peeked, prev>>

\* The iteration as it would be if the sequence were started afresh for
\* every character.
Classify_fresh(d) ==
    /\ pc = "scan"
    /\ Get(characters, cursor) # None
    /\ sequence' = <<Get(characters, cursor)[1]>>
    /\ cb' \in Answering(cb, sequence')
    /\ cb'[sequence'] = d
    /\ calls' = Append(calls, [prefix |-> sequence', decision |-> d,
                               at |-> cursor, require |-> require])

\* One iteration that finds a character: it is pushed onto the sequence and
\* the classifier is invoked on the sequence.
Classify(d) ==
    /\ pc = "scan"
    /\ Get(characters, cursor) # None
    /\ sequence' = Append(sequence, Get(characters, cursor)[1])
    /\ cb' \in Answering(cb, sequence')
    /\ cb'[sequence'] = d
    /\ calls' = Append(calls, [prefix |-> sequence', decision |-> d,
                               at |-> cursor, require |-> require])

ScanReturn ==
    \E v \in Values :
        /\ Classify(Some(Return(v)))
        /\ Iterate("Return", ArmReturn(LoopState, v))

ScanRequest ==
    \E v \in Values :
        /\ Classify(Some(Request(v)))
        /\ Iterate("Request", ArmRequest(LoopState, v))

ScanRequire ==
    /\ Classify(Some(Require))
    /\ Iterate("Require", ArmRequire(LoopState))

ScanNone ==
    /\ Classify(None)
    /\ Iterate("None", ArmNone(LoopState))

\* One iteration that finds no character.
ScanEnd ==
    /\ pc = "scan"
    /\ Get(characters, cursor) = None
    /\ Iterate("End", ArmEnd(LoopState))
    /\ UNCHANGED <<cb, sequence, calls>>

Next ==
    \/ CallCursor
    \/ CallPeek
    \/ CallIsDone
    \/ Pop
    \/ Take
    \/ Transform
    \/ ScanBegin
    \/ ScanReturn
    \/ ScanRequest
    \/ ScanRequire
    \/ ScanNone
    \/ ScanEnd

Spec == Init /\ [][Next]_vars

\* The iterations of the loop of scan: scan runs its loop without
\* suspension, so an iteration that can be taken is taken.
ScanLoop ==
    \/ ScanReturn
    \/ ScanRequest
    \/ ScanRequire
    \/ ScanNone
    \/ ScanEnd

FairSpec == Init /\ [][Next]_vars /\ WF_vars(ScanLoop)

\* ----------------------------------------------------------------- claims
\* A scan call has returned and nothing was called since.
ScanReturned == pc = "idle" /\ lastOp = "scan"

Last(seq) == seq[Len(seq)]

IsTag(d, t) == d # None /\ d[1].tag = t

\* The invocations of the call that consumed a character and went on.
Consuming(cs) ==
    SelectSeq(cs, LAMBDA c : IsTag(c.decision, "Request")
                             \/ IsTag(c.decision, "Require"))

\* The value of the latest Request among the invocations cs, if any.
LastRequest(cs) ==
    LET reqs == SelectSeq(cs, LAMBDA c : IsTag(c.decision, "Request"))
    IN  IF reqs = <<>> THEN None ELSE Some(Last(reqs).decision[1].val)

\* C1: in every reachable state the cursor lies between 0 and the number of
\* characters of the input.
C1_CursorInRange == 0 <= cursor /\ cursor <= Len(characters)

C1_Witness ==
    /\ ScanReturned
    /\ Len(characters) >= 2
    /\ start < cursor
    /\ cursor = Len(characters)

\* C2: the cursor never decreases: no step lowers it, no step raises it by
\* more than one, and inside and after a call it is at least what it was
\* when the call began.
C2_CursorMonotonic ==
    /\ [][cursor <= cursor' /\ cursor' <= cursor + 1]_vars
    /\ [](start <= cursor)

C2_Witness ==
    /\ ScanReturned
    /\ ret.tag = "Err"
    /\ start + 2 <= cursor

\* C3: a None decision under a set require flag fails with the position of
\* the rejected character, which is where the cursor is left: the character
\* is still there, and every character decided Request or Require before it
\* is consumed.
C3_RequireMismatch ==
    (ScanReturned /\ arm = "None" /\ Last(calls).require) =>
        /\ ret = Err(Character(cursor))
        /\ cursor = Last(calls).at
        /\ cursor = start + Len(calls) - 1
        /\ Get(characters, cursor) = Some(Last(Last(calls).prefix))
        /\ Len(Consuming(calls)) = Len(calls) - 1
        /\ \A i \in 1..(Len(calls) - 1) : calls[i].at < cursor

C3_Witness ==
    /\ ScanReturned
    /\ arm = "None"
    /\ Last(calls).require
    /\ Len(calls) = 3
    /\ IsTag(calls[1].decision, "Request")

\* C4: end of input under a set require flag fails with EndOfLine and leaves
\* the cursor at the end of the characters.
C4_RequireEndOfLine ==
    (ScanReturned /\ arm = "End" /\ require) =>
        /\ ret = Err(EndOfLine)
        /\ cursor = Len(characters)
        /\ is_done(characters, cursor)

C4_Witness ==
    /\ ScanReturned
    /\ arm = "End"
    /\ require
    /\ start > 0
    /\ Len(calls) = 2

\* C5: a None decision under a clear require flag succeeds with the value of
\* the latest Request (no value if there was none) and leaves the cursor on
\* the rejected character, which peek then returns.
C5_RequestMismatch ==
    (ScanReturned /\ arm = "None" /\ ~Last(calls).require) =>
        /\ ret = Ok(LastRequest(calls))
        /\ cursor = Last(calls).at
        /\ cursor = start + Len(calls) - 1
        /\ peek(characters, cursor) = Some(Last(Last(calls).prefix))

C5_Witness ==
    /\ ScanReturned
    /\ arm = "None"
    /\ ~Last(calls).require
    /\ Len(calls) = 3
    /\ ret = Ok(Some(2))
    /\ IsTag(calls[1].decision, "Require")

\* C6: end of input under a clear require flag succeeds with the value of
\* the latest Request and moves the cursor no further than the characters
\* consumed; a scan begun at the end of the characters returns no value,
\* leaves the cursor where it was and never invokes the classifier.
C6_RequestEndOfLine ==
    /\ (ScanReturned /\ arm = "End" /\ ~require) =>
            /\ ret = Ok(LastRequest(calls))
            /\ cursor = start + Len(calls)
    /\ (ScanReturned /\ start = Len(characters)) =>
            /\ ret = Ok(None)
            /\ cursor = start
            /\ calls = <<>>

C6_Witness ==
    /\ ScanReturned
    /\ arm = "End"
    /\ ~require
    /\ Len(calls) = 2
    /\ ret = Ok(Some(1))

\* C7: a Return(v) decision on the k-th character of a call ends the call at
\* once with v, whatever the require flag and the pending value, and leaves
\* the cursor k past where the call began.
C7_ReturnImmediately ==
    (calls # <<>> /\ IsTag(Last(calls).decision, "Return")) =>
        /\ ScanReturned
        /\ ret = Ok(Some(Last(calls).decision[1].val))
        /\ cursor = start + Len(calls)

C7_Witness ==
    /\ ScanReturned
    /\ arm = "Return"
    /\ Len(calls) = 3
    /\ Last(calls).require
    /\ request = Some(1)
    /\ ret = Ok(Some(2))

\* C8: at a None decision or at end of input the latest consuming decision
\* governs: after Request(v) the call succeeds with v even if a Require
\* came before it, after Require it fails even if a Request value is
\* pending.
C8_LastDecisionGoverns ==
    (ScanReturned /\ arm \in {"None", "End"} /\ Consuming(calls) # <<>>) =>
        LET d == Last(Consuming(calls)).decision[1]
        IN  /\ d.tag = "Request" => ret = Ok(Some(d.val))
            /\ d.tag = "Require" => ret.tag = "Err"

C8_Witness ==
    /\ ScanReturned
    /\ arm = "None"
    /\ Len(calls) = 3
    /\ calls[1].decision = Some(Require)
    /\ calls[2].decision = Some(Request(2))
    /\ ret = Ok(Some(2))

\* C9: as the comment on Action::Require has it, a None decision right after
\* a Require decision makes scan return no value, not a failure, and does
\* not advance the cursor.
C9_RequireThenNoneReturnsNone ==
    (/\ ScanReturned
     /\ arm = "None"
     /\ Len(calls) >= 2
     /\ calls[Len(calls) - 1].decision = Some(Require)) =>
        /\ ret = Ok(None)
        /\ cursor = Last(calls).at

\* The classifier of the call answers Return(v) on every first character.
AlwaysReturns(v) == \A str \in FirstCharacters : cb[str] = Some(Return(v))

\* C10 as stated: for every input and every starting cursor, a classifier
\* that answers Return(v) on the first character makes scan return v and
\* advance the cursor by one.
C10_RoundTripEverywhere ==
    \A v \in Values :
        (ScanReturned /\ AlwaysReturns(v)) =>
            /\ ret = Ok(Some(v))
            /\ cursor = start + 1

\* C10 as amended: the same, for a scan begun before the end of the
\* characters.
C10_RoundTrip ==
    \A v \in Values :
        (ScanReturned /\ AlwaysReturns(v) /\ start < Len(characters)) =>
            /\ ret = Ok(Some(v))
            /\ cursor = start + 1
            /\ Len(calls) = 1

C10_Witness ==
    /\ ScanReturned
    /\ AlwaysReturns(2)
    /\ start = 1
    /\ Len(characters) = 3
    /\ cursor = 2

\* C11: every scan call returns: a call in its loop leaves it, it invokes
\* the classifier at most once per character between the cursor at its
\* start and the end, and an iteration that does not end the loop consumes
\* exactly one character.
C11_ScanTerminates ==
    /\ (pc = "scan") ~> (pc = "idle")
    /\ [](lastOp = "scan" => Len(calls) <= Len(characters) - start)
    /\ [][(pc = "scan" /\ pc' = "scan") => cursor' = cursor + 1]_vars

C11_Witness ==
    /\ ScanReturned
    /\ arm = "End"
    /\ start = 0
    /\ Len(calls) = 3
    /\ Len(characters) = 3

\* C12: the result and the final cursor of a scan call are a function of the
\* characters, the cursor at its start and the classifier alone, whatever
\* scan calls came before it.
C12_ScanIndependent ==
    ScanReturned =>
        /\ ret = scan(characters, start, cb).ret
        /\ cursor = scan(characters, start, cb).cursor

C12_Witness ==
    /\ ScanReturned
    /\ prev = "Err"
    /\ start < Len(characters)
    /\ ret = Ok(None)

\* C13: pop on an exhausted store returns no value and leaves the cursor;
\* otherwise it returns the character at the cursor before the call and
\* advances the cursor by exactly one.
C13_Pop ==
    lastOp = "pop" =>
        IF start >= Len(characters)
        THEN ret = None /\ cursor = start
        ELSE ret = Some(characters[start + 1]) /\ cursor = start + 1

C13_Witness ==
    /\ lastOp = "pop"
    /\ start = 1
    /\ ret = Some("b")
    /\ cursor = 2

\* C14: take(c) returns true and advances the cursor by one iff there is a
\* character at the cursor and it equals c; otherwise it returns false and
\* leaves the cursor, so take calls with unmatching targets never advance.
C14_Take ==
    /\ [](lastOp = "take" =>
            /\ ret = (start < Len(characters)
                      /\ characters[start + 1] = arg)
            /\ cursor = IF ret THEN start + 1 ELSE start)
    /\ [][(lastOp' = "take" /\ ~ret') => cursor' = cursor]_vars

C14_Witness ==
    /\ lastOp = "take"
    /\ ~ret
    /\ start = 1
    /\ Len(characters) = 3
    /\ arg # characters[2]

\* C15: transform(f) at end of input returns nothing without invoking f and
\* without advancing; otherwise it invokes f once, on the current character,
\* and returns f's value and advances by one iff f yields a value, else
\* returns nothing and leaves the cursor.
C15_Transform ==
    lastOp = "transform" =>
        IF start >= Len(characters)
        THEN ret = None /\ applied = <<>> /\ cursor = start
        ELSE /\ applied = <<characters[start + 1]>>
             /\ ret = arg[characters[start + 1]]
             /\ cursor = IF ret # None THEN start + 1 ELSE start

C15_Witness ==
    /\ lastOp = "transform"
    /\ start = 1
    /\ Len(characters) = 3
    /\ applied = <<"b">>
    /\ ret = None
    /\ cursor = 1

\* C16: in every reachable state is_done() is true iff the cursor equals the
\* number of characters, which is exactly when peek() returns nothing;
\* otherwise peek() returns the character at the cursor.  The calls return
\* just that.
C16_DoneAndPeek ==
    /\ is_done(characters, cursor) <=> cursor = Len(characters)
    /\ is_done(characters, cursor) <=> peek(characters, cursor) = None
    /\ ~is_done(characters, cursor) =>
            peek(characters, cursor) = Some(characters[cursor + 1])
    /\ lastOp = "is_done" => ret = (cursor = Len(characters))
    /\ lastOp = "peek" =>
            ret = IF cursor = Len(characters)
                  THEN None
                  ELSE Some(characters[cursor + 1])

C16_Witness ==
    /\ lastOp = "is_done"
    /\ ret
    /\ cursor = 2
    /\ peek(characters, cursor) = None

\* C17: cursor(), peek() and is_done() leave the cursor alone, no operation
\* changes the characters, and the peek calls made with no pop, take,
\* transform or scan call between them all return the same value.
C17_ObserversFrame ==
    /\ [][characters' = characters]_vars
    /\ [][lastOp' \in {"cursor", "peek", "is_done"} => cursor' = cursor]_vars
    /\ [](lastOp = "cursor" => ret = cursor)
    /\ [](\A i, j \in 1..Len(peeked) : peeked[i] = peeked[j])

C17_Witness ==
    /\ lastOp = "peek"
    /\ Len(peeked) = 2
    /\ ret = Some("b")
    /\ cursor = 1

\* The invocations of the call that decided Request.
RequestAt(cs) == {i \in 1..Len(cs) : IsTag(cs[i].decision, "Request")}

\* C18: a scan that succeeds with the pending value (at a None decision or
\* at end of input) leaves the cursor one past the character of the latest
\* Request, and where it was at the start when there is no value: Ok(None)
\* means the cursor did not move.
C18_RetractsToRequest ==
    /\ (ScanReturned /\ arm \in {"None", "End"} /\ ret.tag = "Ok") =>
            IF ret.val = None
            THEN cursor = start /\ RequestAt(calls) = {}
            ELSE /\ RequestAt(calls) # {}
                 /\ \E i \in RequestAt(calls) :
                        /\ \A j \in RequestAt(calls) : j <= i
                        /\ cursor = calls[i].at + 1
                        /\ ret.val = Some(calls[i].decision[1].val)
    /\ (ScanReturned /\ ret = Ok(None)) => cursor = start

C18_Witness ==
    /\ ScanReturned
    /\ arm = "End"
    /\ Len(calls) = 3
    /\ calls[1].decision = Some(Request(1))
    /\ calls[2].decision = Some(Require)
    /\ ret = Ok(Some(2))
    /\ cursor = 3

\* C19: a scan that fails has consumed input: the cursor is past where the
\* call began; the position of Err(Character(P)) is that of a character;
\* a scan begun on an exhausted store does not fail.
C19_FailsAfterConsuming ==
    (ScanReturned /\ ret.tag = "Err") =>
        /\ start < cursor
        /\ start < Len(characters)
        /\ ret.err.tag = "Character" =>
                /\ ret.err.pos < Len(characters)
                /\ Get(characters, ret.err.pos) # None

C19_Witness ==
    /\ ScanReturned
    /\ ret = Err(Character(2))
    /\ start = 1
    /\ Len(characters) = 3

\* C20: the k-th invocation of the classifier in a scan call begun at cursor
\* s receives the k characters at s .. s+k-1, while the cursor is s+k-1.
C20_PrefixGrows ==
    lastOp = "scan" =>
        \A k \in 1..Len(calls) :
            /\ calls[k].prefix = SubSeq(characters, start + 1, start + k)
            /\ Len(calls[k].prefix) = k
            /\ calls[k].at = start + k - 1

C20_Witness ==
    /\ lastOp = "scan"
    /\ start = 1
    /\ Len(calls) = 2
    /\ calls[2].prefix = <<"a", "b">>
    /\ calls[2].at = 2

====
